---- MODULE Spec2Model ----
(***************************************************************************)
(* Model of the EthicalAIditor LLM API: the model-lifecycle globals        *)
(* (model, tokenizer, model_loading), the lazy / eager load paths and the  *)
(* request handlers of the Cloud Run variant (llm-api/app.py) and of the   *)
(* VM variant (llm-api/vm-setup/app.py), and the credential masking of     *)
(* /debug/env.                                                             *)
(*                                                                         *)
(* Python threads interleave between bytecodes, so every read or write of  *)
(* a module global is a step of its own; code that touches only locals is  *)
(* folded into the step that precedes it.                                  *)
(***************************************************************************)
EXTENDS Integers, Sequences, FiniteSets, TLC

\* Bounds of the model.
NumThreads == 2
MaxTokenLen == 9
MaxCtxLen == 2002
MaxRawLen == 5

\* Program constants.
MaxLengthLimit == 500
MaskKeep == 4
ContextCap == 2000

Threads == 1..NumThreads

\* Python's None for the globals model / tokenizer; a loaded artifact is
\* named by the thread whose load_model() call constructed it (a thread
\* calls load_model at most once): a request thread, or Loader, the eager
\* loader thread (app.py) or the importing main thread (vm).
None == 0
Loader == NumThreads + 1

\* Characters a credential token is made of (two are enough to tell
\* tokens of one length apart).
TokenChars == {"a", "b"}

\* str(e) of the exceptions the handlers can catch.
ExcTexts == {"LoadError", "GenError", "TypeError"}

VARIABLES
    variant,        \* "cloudrun" (app.py) or "vm" (vm-setup/app.py)
    EAGER_LOAD,     \* app.py configuration flag
    model,          \* module global
    tokenizer,      \* module global
    model_loading,  \* module global (app.py only)
    bg,             \* the eager loader thread (app.py) / the import-time load (vm)
    thr,            \* the request threads
    loadCalls,      \* number of load_model() invocations so far
    handlesBuilt,   \* number of models constructed (from_pretrained returned)
    log,            \* exception texts written to the server log
    health,         \* last /health response
    hf_token,       \* HF_TOKEN of the environment (<<>>: not set)
    debug,          \* last /debug/env response
    rootSeen,       \* / has answered (its body is fixed)
    chat            \* the prompt and the text of a /chat request (app.py, vm)

vars == <<variant, EAGER_LOAD, model, tokenizer, model_loading, bg, thr,
          loadCalls, handlesBuilt, log, health, hf_token, debug,
                   rootSeen, chat>>

----------------------------------------------------------------------------
\* Values

NoReq == [kind |-> "none", has_prompt |-> FALSE, max_length |-> 0]
NoResp == [status |-> 0, error |-> "", details |-> ""]
NoHealth == [seen |-> FALSE, model_loaded |-> FALSE]
NoDebug == [seen |-> FALSE, configured |-> FALSE, masked |-> <<>>]
NoChat == [pc |-> "off", ctx |-> <<>>, msgs |-> <<>>, prompt |-> <<>>,
           raw |-> <<>>, text |-> <<>>]

\* Request bodies: /generate with or without a prompt and max_length at or
\* just over the limit, and /chat.
ReqInputs ==
    {[kind |-> "generate", has_prompt |-> FALSE, max_length |-> MaxLengthLimit],
     [kind |-> "generate", has_prompt |-> TRUE, max_length |-> MaxLengthLimit],
     [kind |-> "generate", has_prompt |-> TRUE, max_length |-> MaxLengthLimit + 1],
     [kind |-> "chat", has_prompt |-> TRUE, max_length |-> MaxLengthLimit]}

IdleThread == [pc |-> "idle", req |-> NoReq, cm |-> None, ct |-> None,
               resp |-> NoResp]

Min(a, b) == IF a < b THEN a ELSE b
Max(a, b) == IF a > b THEN a ELSE b

----------------------------------------------------------------------------
\* Pure pieces of the code

\* The polling test with the comparison of model inverted (`is not None`):
\* the slip that lets a waiting request through before the model is set.
WaitCondInverted(ml, m) == ml /\ m # None

\* get_model's polling test: `while model_loading and model is None`.
WaitCond(ml, m) == ml /\ m = None

\* What load_model()'s `model_loading = False` (except and finally clauses)
\* does to the module global: load_model declares only `global model,
\* tokenizer`, so the assignment binds a local and the global keeps its value.
LoadModelClearsFlag(ml) == ml

\* /health testing the artifact load_model sets first instead of the one it
\* sets last.
HealthFromTokenizer(m, tk) == tk # None

\* /health: 'model_loaded': model is not None.
HealthModelLoaded(m, tk) == m # None

\* generate_text's validation: the status it returns, 0 when the request
\* goes on to the backend.
GenerateValidate(req) ==
    IF ~req.has_prompt THEN 400
    ELSE IF req.max_length > MaxLengthLimit THEN 400
    ELSE 0

\* vm chat(): `if not prompt` (max_length is not a field chat() reads).
VmValidateStatus(req) == IF ~req.has_prompt THEN 400 ELSE 0

\* A test of the tokenizer alone.
VmTokenizerOnly(m, tk) == tk = None

\* vm chat(): `if model is None or tokenizer is None`.
VmNotLoaded(m, tk) == m = None \/ tk = None

\* debug_env: f"{hf_token[:4]}...{hf_token[-4:]}".
TokenHead(tok) == SubSeq(tok, 1, Min(MaskKeep, Len(tok)))
TokenTail(tok) == SubSeq(tok, Max(1, Len(tok) - MaskKeep + 1), Len(tok))
Mask(tok) == TokenHead(tok) \o <<".", ".", ".">> \o TokenTail(tok)

\* The 500 bodies of the two variants.
CloudRunError(e) == [status |-> 500, error |-> "Internal server error", details |-> e]
VmError(e) == [status |-> 500, error |-> e, details |-> ""]

----------------------------------------------------------------------------
\* /chat: the prompt and the returned text (app.py chat, vm chat)
\*
\* A string is a sequence of symbols: a character, or one of the fixed
\* pieces of text chat() puts into the prompt.

\* 'You are an ethical AI writing assistant trained on legally licensed
\* materials.'
Preamble == <<"SYS">>

\* '\n\nManuscript context:\n'
CtxHeader == <<"\n\n", "Manuscript context:", "\n">>

WhiteSpace == {" ", "\n", "\n\n"}

\* manuscript_context[-2000:], the slip that keeps the end of the context.
ExcerptTail(ctx) == SubSeq(ctx, Max(1, Len(ctx) - ContextCap + 1), Len(ctx))

\* manuscript_context[:2000].
Excerpt(ctx) == SubSeq(ctx, 1, Min(ContextCap, Len(ctx)))

\* system_prompt: the preamble, and the excerpt `if manuscript_context`.
SystemPrompt(ctx) ==
    Preamble \o (IF ctx # <<>> THEN CtxHeader \o Excerpt(ctx) ELSE <<>>)

\* f"{'[INST]' if user} {content} {'[/INST]' if user}" of one message.
MsgText(m) ==
    (IF m.role = "user" THEN <<"[INST]">> ELSE <<>>)
    \o <<" ">> \o m.content \o <<" ">>
    \o (IF m.role = "user" THEN <<"[/INST]">> ELSE <<>>)

\* '\n'.join of the messages' texts.
RECURSIVE JoinMessages(_)
JoinMessages(msgs) ==
    IF msgs = <<>> THEN <<>>
    ELSE IF Len(msgs) = 1 THEN MsgText(msgs[1])
    ELSE MsgText(msgs[1]) \o <<"\n">> \o JoinMessages(Tail(msgs))

\* full_prompt = f"{system_prompt}\n\n{message_prompt}".
FullPrompt(ctx, msgs) == SystemPrompt(ctx) \o <<"\n\n">> \o JoinMessages(msgs)

\* str.startswith, s[n:] and str.strip.
StartsWith(s, pre) == Len(pre) <= Len(s) /\ SubSeq(s, 1, Len(pre)) = pre
DropFirst(s, n) == IF n >= Len(s) THEN <<>> ELSE SubSeq(s, n + 1, Len(s))

RECURSIVE LStrip(_)
LStrip(s) == IF s # <<>> /\ s[1] \in WhiteSpace THEN LStrip(Tail(s)) ELSE s

RECURSIVE RStrip(_)
RStrip(s) ==
    IF s # <<>> /\ s[Len(s)] \in WhiteSpace THEN RStrip(SubSeq(s, 1, Len(s) - 1)) ELSE s

Strip(s) == RStrip(LStrip(s))

\* app.py: `if generated_text.startswith(full_prompt):
\*              generated_text = generated_text[len(full_prompt):].strip()`.
StripPromptCloudRun(raw, prompt) ==
    IF StartsWith(raw, prompt) THEN Strip(DropFirst(raw, Len(prompt))) ELSE raw

\* vm: `response_text = generated_text[len(prompt):].strip()`.
StripPromptVm(raw, prompt) == Strip(DropFirst(raw, Len(prompt)))

StripPrompt(v, raw, prompt) ==
    IF v = "vm" THEN StripPromptVm(raw, prompt) ELSE StripPromptCloudRun(raw, prompt)

----------------------------------------------------------------------------
\* Initial states

Init ==
    /\ variant \in {"cloudrun", "vm"}
    /\ EAGER_LOAD \in (IF variant = "cloudrun" THEN BOOLEAN ELSE {FALSE})
    /\ model = None
    /\ tokenizer = None
    /\ model_loading = FALSE
    /\ bg = [pc |-> IF variant = "vm" THEN "vm_tok"
                    ELSE IF EAGER_LOAD THEN "b_start" ELSE "off",
             failed |-> FALSE]
    /\ thr = [t \in Threads |-> IdleThread]
    /\ loadCalls = 0
    /\ handlesBuilt = 0
    /\ log = {}
    /\ health = NoHealth
    /\ hf_token = <<>>
    /\ debug = NoDebug
    /\ rootSeen = FALSE
    /\ chat = NoChat

----------------------------------------------------------------------------
\* Request threads, Cloud Run variant (app.py)
\*
\* A handler reads the request body only after get_model() has returned
\* (app.py) or after the not-loaded check (vm): the model draws the body of
\* the request where the handler reads it, and, for a request answered
\* before that, when the answer is given.

Goto(t, p) == thr' = [thr EXCEPT ![t].pc = p]

\* The handler returns its answer to request r: its locals are gone.
Respond(t, r, resp) ==
    thr' = [thr EXCEPT ![t] = [pc |-> "done", req |-> r, cm |-> None, ct |-> None,
                               resp |-> resp]]

\* A request arrives: generate_text / chat call get_model() first
\* (app.py), chat() checks the globals first (vm, served only once the
\* import-time load_model() has returned).
Arrive(t) ==
    /\ thr[t].pc = "idle"
    /\ variant = "vm" => bg.pc = "vm_serving"
    /\ Goto(t, IF variant = "vm" THEN "v_check" ELSE "g_model")
    /\ UNCHANGED <<variant, EAGER_LOAD, model, tokenizer, model_loading, bg,
                   loadCalls, handlesBuilt, log, health, hf_token, debug,
                   rootSeen, chat>>

\* get_model: `if model is None`.
GetModelCheckModel(t) ==
    /\ thr[t].pc = "g_model"
    /\ Goto(t, IF model = None THEN "g_flag" ELSE "g_ret")
    /\ UNCHANGED <<variant, EAGER_LOAD, model, tokenizer, model_loading, bg,
                   loadCalls, handlesBuilt, log, health, hf_token, debug,
                   rootSeen, chat>>

\* get_model: `if model_loading` ... `else: load_model()`. The flag is only
\* read here: get_model never sets it.
GetModelCheckFlag(t) ==
    /\ thr[t].pc = "g_flag"
    /\ IF model_loading
       THEN /\ Goto(t, "g_wait")
            /\ UNCHANGED loadCalls
       ELSE /\ Goto(t, "l_tok")
            /\ loadCalls' = loadCalls + 1
    /\ UNCHANGED <<variant, EAGER_LOAD, model, tokenizer, model_loading, bg,
                   handlesBuilt, log, health, hf_token, debug,
                   rootSeen, chat>>

\* get_model: `while model_loading and model is None: time.sleep(0.5)`.
\* A poll that finds the test true sleeps and leaves the state as it is.
GetModelWait(t) ==
    /\ thr[t].pc = "g_wait"
    /\ IF WaitCond(model_loading, model)
       THEN UNCHANGED thr
       ELSE Goto(t, "g_ret")
    /\ UNCHANGED <<variant, EAGER_LOAD, model, tokenizer, model_loading, bg,
                   loadCalls, handlesBuilt, log, health, hf_token, debug,
                   rootSeen, chat>>

\* load_model raising inside a request: its except clause logs and re-raises,
\* its finally clause runs, and the handler's except clause logs again and
\* answers 500 with str(e) in the body, whatever the body of the request.
LoadRaisesInRequest(t) ==
    /\ \E r \in ReqInputs : Respond(t, r, CloudRunError("LoadError"))
    /\ log' = log \cup {"LoadError"}
    /\ model_loading' = LoadModelClearsFlag(model_loading)

\* load_model: login and AutoTokenizer.from_pretrained, `tokenizer = ...`.
LoadTokenizer(t) ==
    /\ thr[t].pc = "l_tok"
    /\ \/ /\ tokenizer' = t
          /\ Goto(t, "l_model")
          /\ UNCHANGED <<log, model_loading>>
       \/ /\ LoadRaisesInRequest(t)
          /\ UNCHANGED tokenizer
    /\ UNCHANGED <<variant, EAGER_LOAD, model, bg, loadCalls, handlesBuilt,
                   health, hf_token, debug,
                   rootSeen, chat>>

\* load_model: AutoModelForCausalLM.from_pretrained, `model = ...`, then the
\* finally clause and the return to get_model.
LoadModel(t) ==
    /\ thr[t].pc = "l_model"
    /\ \/ /\ model' = t
          /\ handlesBuilt' = handlesBuilt + 1
          /\ model_loading' = LoadModelClearsFlag(model_loading)
          /\ Goto(t, "g_ret")
          /\ UNCHANGED log
       \/ /\ LoadRaisesInRequest(t)
          /\ UNCHANGED <<model, handlesBuilt>>
    /\ UNCHANGED <<variant, EAGER_LOAD, tokenizer, bg, loadCalls,
                   health, hf_token, debug,
                   rootSeen, chat>>

\* get_model: `return model, tokenizer`, then the handler reads the body:
\* generate_text checks it, chat builds the prompt and rejects nothing.
GetModelReturn(t) ==
    /\ thr[t].pc = "g_ret"
    /\ \E r \in ReqInputs :
          LET st == IF r.kind = "generate" THEN GenerateValidate(r) ELSE 0
          IN  IF st = 0
              THEN thr' = [thr EXCEPT ![t].pc = "backend", ![t].req = r,
                                      ![t].cm = model, ![t].ct = tokenizer]
              ELSE Respond(t, r, [status |-> st, error |-> "client error",
                                  details |-> ""])
    /\ UNCHANGED <<variant, EAGER_LOAD, model, tokenizer, model_loading, bg,
                   loadCalls, handlesBuilt, log, health, hf_token, debug,
                   rootSeen, chat>>

\* The tokenizer call, model.generate and decode, on the pair get_model
\* returned. Calling None raises TypeError; the backend itself may raise.
Backend(t) ==
    /\ thr[t].pc = "backend"
    /\ IF thr[t].cm = None \/ thr[t].ct = None
       THEN /\ Respond(t, thr[t].req, CloudRunError("TypeError"))
            /\ log' = log \cup {"TypeError"}
       ELSE \/ /\ Respond(t, thr[t].req, [status |-> 200, error |-> "", details |-> ""])
               /\ UNCHANGED log
            \/ /\ Respond(t, thr[t].req, CloudRunError("GenError"))
               /\ log' = log \cup {"GenError"}
    /\ UNCHANGED <<variant, EAGER_LOAD, model, tokenizer, model_loading, bg,
                   loadCalls, handlesBuilt, health, hf_token, debug,
                   rootSeen, chat>>

----------------------------------------------------------------------------
\* The eager loader thread (app.py, EAGER_LOAD)

\* load_model_background: `model_loading = True`, then load_model().
BgStart ==
    /\ bg.pc = "b_start"
    /\ model_loading' = TRUE
    /\ bg' = [bg EXCEPT !.pc = "l_tok"]
    /\ loadCalls' = loadCalls + 1
    /\ UNCHANGED <<variant, EAGER_LOAD, model, tokenizer, thr, handlesBuilt,
                   log, health, hf_token, debug,
                   rootSeen, chat>>

\* load_model raising in the loader thread: load_model's except and finally
\* clauses, then load_model_background's except logs and the thread ends.
BgLoadRaises ==
    /\ bg' = [bg EXCEPT !.pc = "b_done", !.failed = TRUE]
    /\ log' = log \cup {"LoadError"}
    /\ model_loading' = LoadModelClearsFlag(model_loading)

BgLoadTokenizer ==
    /\ bg.pc = "l_tok"
    /\ \/ /\ tokenizer' = Loader
          /\ bg' = [bg EXCEPT !.pc = "l_model"]
          /\ UNCHANGED <<log, model_loading>>
       \/ /\ BgLoadRaises
          /\ UNCHANGED tokenizer
    /\ UNCHANGED <<variant, EAGER_LOAD, model, thr, loadCalls, handlesBuilt,
                   health, hf_token, debug,
                   rootSeen, chat>>

BgLoadModel ==
    /\ bg.pc = "l_model"
    /\ \/ /\ model' = Loader
          /\ handlesBuilt' = handlesBuilt + 1
          /\ model_loading' = LoadModelClearsFlag(model_loading)
          /\ bg' = [bg EXCEPT !.pc = "b_done"]
          /\ UNCHANGED log
       \/ /\ BgLoadRaises
          /\ UNCHANGED <<model, handlesBuilt>>
    /\ UNCHANGED <<variant, EAGER_LOAD, tokenizer, thr, loadCalls,
                   health, hf_token, debug,
                   rootSeen, chat>>

----------------------------------------------------------------------------
\* VM variant (vm-setup/app.py)

\* load_model() at import time: the tokenizer, then the model. An exception
\* is caught nowhere: the import fails and the process ends before serving.
VmLoadTokenizer ==
    /\ bg.pc = "vm_tok"
    /\ \/ /\ tokenizer' = Loader
          /\ bg' = [bg EXCEPT !.pc = "vm_model"]
          /\ loadCalls' = loadCalls + 1
          /\ UNCHANGED log
       \/ /\ bg' = [bg EXCEPT !.pc = "vm_crashed", !.failed = TRUE]
          /\ loadCalls' = loadCalls + 1
          /\ log' = log \cup {"LoadError"}
          /\ UNCHANGED tokenizer
    /\ UNCHANGED <<variant, EAGER_LOAD, model, model_loading, thr, handlesBuilt,
                   health, hf_token, debug,
                   rootSeen, chat>>

VmLoadModel ==
    /\ bg.pc = "vm_model"
    /\ \/ /\ model' = Loader
          /\ handlesBuilt' = handlesBuilt + 1
          /\ bg' = [bg EXCEPT !.pc = "vm_serving"]
          /\ UNCHANGED log
       \/ /\ bg' = [bg EXCEPT !.pc = "vm_crashed", !.failed = TRUE]
          /\ log' = log \cup {"LoadError"}
          /\ UNCHANGED <<model, handlesBuilt>>
    /\ UNCHANGED <<variant, EAGER_LOAD, tokenizer, model_loading, thr, loadCalls,
                   health, hf_token, debug,
                   rootSeen, chat>>

\* chat(): `if model is None or tokenizer is None: return 503`, then
\* `if not prompt: return 400`.
VmCheck(t) ==
    /\ thr[t].pc = "v_check"
    /\ \E r \in ReqInputs :
          IF VmNotLoaded(model, tokenizer)
          THEN Respond(t, r, [status |-> 503, error |-> "Model not loaded",
                              details |-> ""])
          ELSE LET st == VmValidateStatus(r)
               IN  IF st = 0
                   THEN thr' = [thr EXCEPT ![t].pc = "v_backend", ![t].req = r]
                   ELSE Respond(t, r, [status |-> st, error |-> "No prompt provided",
                                       details |-> ""])
    /\ UNCHANGED <<variant, EAGER_LOAD, model, tokenizer, model_loading, bg,
                   loadCalls, handlesBuilt, log, health, hf_token, debug,
                   rootSeen, chat>>

\* chat(): the try block, on the globals tokenizer and model; its except
\* clause answers 500 with str(e) as the error and logs nothing.
VmBackend(t) ==
    /\ thr[t].pc = "v_backend"
    /\ IF model = None \/ tokenizer = None
       THEN Respond(t, thr[t].req, VmError("TypeError"))
       ELSE \/ Respond(t, thr[t].req, [status |-> 200, error |-> "", details |-> ""])
            \/ Respond(t, thr[t].req, VmError("GenError"))
    /\ UNCHANGED <<variant, EAGER_LOAD, model, tokenizer, model_loading, bg,
                   loadCalls, handlesBuilt, log, health, hf_token, debug,
                   rootSeen, chat>>

----------------------------------------------------------------------------
\* Handlers that do not use the model

\* A /health that marks a load as started.
HealthMarksLoading ==
    /\ variant = "vm" => bg.pc = "vm_serving"
    /\ health' = [seen |-> TRUE, model_loaded |-> model # None]
    /\ model_loading' = TRUE
    /\ UNCHANGED <<variant, EAGER_LOAD, model, tokenizer, bg, thr,
                   loadCalls, handlesBuilt, log, hf_token, debug,
                   rootSeen, chat>>

\* /health of both variants (the VM serves only after its load).
Health ==
    /\ variant = "vm" => bg.pc = "vm_serving"
    /\ health' = [seen |-> TRUE, model_loaded |-> HealthModelLoaded(model, tokenizer)]
    /\ UNCHANGED <<variant, EAGER_LOAD, model, tokenizer, model_loading, bg, thr,
                   loadCalls, handlesBuilt, log, hf_token, debug,
                   rootSeen, chat>>

\* /debug/env (app.py).
DebugEnv ==
    /\ variant = "cloudrun"
    /\ debug' = [seen |-> TRUE,
                 configured |-> hf_token # <<>>,
                 masked |-> IF hf_token # <<>> THEN Mask(hf_token) ELSE <<"NOT SET">>]
    /\ UNCHANGED <<variant, EAGER_LOAD, model, tokenizer, model_loading, bg, thr,
                   loadCalls, handlesBuilt, log, health, hf_token,
                   rootSeen, chat>>

\* / (app.py): the name of the API and its endpoints.
Root ==
    /\ variant = "cloudrun"
    /\ rootSeen' = TRUE
    /\ UNCHANGED <<variant, EAGER_LOAD, model, tokenizer, model_loading, bg, thr,
                   loadCalls, handlesBuilt, log, health, hf_token, debug, chat>>

----------------------------------------------------------------------------
\* Specifications

Next ==
    \/ \E t \in Threads :
          \/ Arrive(t)
          \/ GetModelCheckModel(t)
          \/ GetModelCheckFlag(t)
          \/ GetModelWait(t)
          \/ LoadTokenizer(t)
          \/ LoadModel(t)
          \/ GetModelReturn(t)
          \/ Backend(t)
          \/ VmCheck(t)
          \/ VmBackend(t)
    \/ BgStart
    \/ BgLoadTokenizer
    \/ BgLoadModel
    \/ VmLoadTokenizer
    \/ VmLoadModel
    \/ Health

Spec == Init /\ [][Next]_vars

\* The credential tokens of the environment: every string over TokenChars of
\* at most MaxTokenLen characters (the empty one: no token configured).
Tokens == UNION {[1..n -> TokenChars] : n \in 0..MaxTokenLen}

InitEnv ==
    /\ variant = "cloudrun"
    /\ EAGER_LOAD = FALSE
    /\ model = None
    /\ tokenizer = None
    /\ model_loading = FALSE
    /\ bg = [pc |-> "off", failed |-> FALSE]
    /\ thr = [t \in Threads |-> IdleThread]
    /\ loadCalls = 0
    /\ handlesBuilt = 0
    /\ log = {}
    /\ health = NoHealth
    /\ hf_token \in Tokens
    /\ debug = NoDebug
    /\ rootSeen = FALSE
    /\ chat = NoChat

NextEnv == DebugEnv

SpecEnv == InitEnv /\ [][NextEnv]_vars

----------------------------------------------------------------------------
\* /chat: the prompt and the returned text, as steps on `chat`

\* The symbols of a backend output, and the outputs.
RawSymbols == {"SYS", "\n\n", " ", "x"}
RawOutputs == UNION {[1..n -> RawSymbols] : n \in 0..MaxRawLen}

\* app.py chat: system_prompt, message_prompt and full_prompt are built.
ChatBuild ==
    /\ chat.pc = "start"
    /\ chat' = [chat EXCEPT !.pc = "built", !.prompt = FullPrompt(chat.ctx, chat.msgs)]
    /\ UNCHANGED <<variant, EAGER_LOAD, model, tokenizer, model_loading, bg, thr,
                   loadCalls, handlesBuilt, log, health, hf_token, debug, rootSeen>>

\* The backend's decoded output: any string of at most MaxRawLen symbols.
ChatGenerate ==
    /\ chat.pc = "built"
    /\ \E raw \in RawOutputs : chat' = [chat EXCEPT !.pc = "raw", !.raw = raw]
    /\ UNCHANGED <<variant, EAGER_LOAD, model, tokenizer, model_loading, bg, thr,
                   loadCalls, handlesBuilt, log, health, hf_token, debug, rootSeen>>

\* The prompt is removed from the output and the text is returned.
ChatStrip ==
    /\ chat.pc = "raw"
    /\ chat' = [chat EXCEPT !.pc = "done",
                            !.text = StripPrompt(variant, chat.raw, chat.prompt)]
    /\ UNCHANGED <<variant, EAGER_LOAD, model, tokenizer, model_loading, bg, thr,
                   loadCalls, handlesBuilt, log, health, hf_token, debug, rootSeen>>

\* The lifecycle part of the state of a process that has just started and
\* loads lazily.
Fresh ==
    /\ EAGER_LOAD = FALSE
    /\ model = None
    /\ tokenizer = None
    /\ model_loading = FALSE
    /\ thr = [t \in Threads |-> IdleThread]
    /\ loadCalls = 0
    /\ handlesBuilt = 0
    /\ log = {}
    /\ health = NoHealth
    /\ hf_token = <<>>
    /\ debug = NoDebug
    /\ rootSeen = FALSE

\* A manuscriptContext of n characters, each character its own position.
Context(n) == [i \in 1..n |-> ToString(i)]

\* The messages of a /chat request.
MessageLists ==
    {<<>>,
     <<[role |-> "user", content |-> <<"x">>]>>,
     <<[role |-> "user", content |-> <<"x">>],
       [role |-> "assistant", content |-> <<"x">>]>>}

\* /chat of app.py with a manuscriptContext of every length up to MaxCtxLen.
InitContext ==
    /\ variant = "cloudrun"
    /\ bg = [pc |-> "off", failed |-> FALSE]
    /\ Fresh
    /\ \E n \in 0..MaxCtxLen, ms \in MessageLists :
          chat = [NoChat EXCEPT !.pc = "start", !.ctx = Context(n), !.msgs = ms]

NextContext == ChatBuild

SpecContext == InitContext /\ [][NextContext]_vars

\* vm chat(): the prompt of the request, not empty (an empty one is answered 400).
VmPrompts == UNION {[1..n -> {"x", " "}] : n \in 1..2}

\* /chat of both variants from the prompt to the returned text.
InitStrip ==
    /\ variant \in {"cloudrun", "vm"}
    /\ bg = [pc |-> IF variant = "vm" THEN "vm_serving" ELSE "off", failed |-> FALSE]
    /\ Fresh
    /\ IF variant = "vm"
       THEN \E pr \in VmPrompts : chat = [NoChat EXCEPT !.pc = "built", !.prompt = pr]
       ELSE \E n \in 0..1, ms \in MessageLists :
               chat = [NoChat EXCEPT !.pc = "start", !.ctx = Context(n), !.msgs = ms]

NextStrip == ChatBuild \/ ChatGenerate \/ ChatStrip

SpecStrip == InitStrip /\ [][NextStrip]_vars

\* vm chat() and generate() as handlers of the app object, which exists and
\* has its routes from line 61 on, before load_model() of line 119 has run:
\* the handler is entered whatever the position of the load.
VmHandle(t) ==
    /\ variant = "vm"
    /\ thr[t].pc = "idle"
    /\ Goto(t, "v_check")
    /\ UNCHANGED <<variant, EAGER_LOAD, model, tokenizer, model_loading, bg,
                   loadCalls, handlesBuilt, log, health, hf_token, debug,
                   rootSeen, chat>>

InitVmHandler ==
    /\ variant = "vm"
    /\ bg = [pc |-> "vm_tok", failed |-> FALSE]
    /\ Fresh
    /\ chat = NoChat

NextVmHandler ==
    \/ VmLoadTokenizer
    \/ VmLoadModel
    \/ \E t \in Threads : VmHandle(t) \/ VmCheck(t) \/ VmBackend(t)

SpecVmHandler == InitVmHandler /\ [][NextVmHandler]_vars

\* app.py with its three handlers that do not use the model, next to the
\* loader thread and one request.
DiagThreads == {1}
DiagTokens == {<<>>, <<"a", "b", "a", "b", "a">>}

InitDiag ==
    /\ variant = "cloudrun"
    /\ EAGER_LOAD \in BOOLEAN
    /\ model = None
    /\ tokenizer = None
    /\ model_loading = FALSE
    /\ bg = [pc |-> IF EAGER_LOAD THEN "b_start" ELSE "off", failed |-> FALSE]
    /\ thr = [t \in Threads |-> IdleThread]
    /\ loadCalls = 0
    /\ handlesBuilt = 0
    /\ log = {}
    /\ health = NoHealth
    /\ hf_token \in DiagTokens
    /\ debug = NoDebug
    /\ rootSeen = FALSE
    /\ chat = NoChat

NextDiag ==
    \/ \E t \in DiagThreads :
          \/ Arrive(t)
          \/ GetModelCheckModel(t)
          \/ GetModelCheckFlag(t)
          \/ GetModelWait(t)
          \/ LoadTokenizer(t)
          \/ LoadModel(t)
          \/ GetModelReturn(t)
          \/ Backend(t)
    \/ BgStart
    \/ BgLoadTokenizer
    \/ BgLoadModel
    \/ Health
    \/ DebugEnv
    \/ Root

SpecDiag == InitDiag /\ [][NextDiag]_vars

----------------------------------------------------------------------------
\* Vocabulary of the properties

\* The load_model() calls that have started and not yet ended.
InFlight ==
    Cardinality({t \in Threads : thr[t].pc \in {"l_tok", "l_model"}})
    + (IF bg.pc \in {"l_tok", "l_model", "vm_model"} THEN 1 ELSE 0)

\* A load attempt has ended in an exception.
SomeLoadFailed ==
    bg.failed \/ \E t \in Threads : thr[t].resp.details = "LoadError"

\* The body of a response shows the text of an exception.
ShowsException(resp) == resp.error \in ExcTexts \/ resp.details \in ExcTexts

\* The backend is about to be called for the request of thread t.
AtBackend(t) == thr[t].pc \in {"backend", "v_backend"}

----------------------------------------------------------------------------
\* Properties

\* C1: at most one load attempt is in flight at a time, at most one handle is
\* ever constructed, and in lazy mode, when every request has been answered
\* 200, load_model() has been invoked exactly once.
C1_SingleLoad ==
    /\ InFlight <= 1
    /\ handlesBuilt <= 1
    /\ (/\ variant = "cloudrun"
        /\ ~EAGER_LOAD
        /\ \A t \in Threads : thr[t].pc = "done" /\ thr[t].resp.status = 200)
       => loadCalls = 1

\* C2: load before use. get_model() returns only when model and tokenizer are
\* both present, a request of the Cloud Run variant is at the backend only
\* with a pair get_model() returned complete, and a request of the VM variant
\* only while both globals are present.
C2_LoadBeforeUse ==
    \A t \in Threads :
        /\ thr[t].pc = "g_ret" => (model # None /\ tokenizer # None)
        /\ thr[t].pc = "backend" => (thr[t].cm # None /\ thr[t].ct # None)
        /\ thr[t].pc = "v_backend" => (model # None /\ tokenizer # None)

\* A request that waited for the eager load is at the backend with the
\* handle the loader thread constructed.
C2_Witness ==
    \E t \in Threads :
        /\ thr[t].pc = "backend"
        /\ thr[t].cm = Loader
        /\ thr[t].ct = Loader
        /\ model_loading

\* C3: the wait in get_model() terminates: a request in the polling loop is
\* never left with the test true and no load in flight that could end it.
C3_WaitTerminates ==
    \A t \in Threads :
        (thr[t].pc = "g_wait" /\ InFlight = 0 /\ bg.pc = "b_done")
            => ~WaitCond(model_loading, model)

\* C4: after a load attempt has failed (no load in flight, no model), the
\* in-progress flag is clear, so that the next get_model() starts a load.
C4_FailureResets ==
    (SomeLoadFailed /\ InFlight = 0 /\ bg.pc # "b_start" /\ model = None)
        => ~model_loading

\* C5: a caller of get_model() that passes the flag test while a load is in
\* flight does not start a second load.
C5_NoSecondLoad ==
    [][\A t \in Threads :
          (GetModelCheckFlag(t) /\ InFlight >= 1) => thr'[t].pc # "l_tok"]_vars

\* C6: a /generate request without a prompt is answered 400 and never
\* reaches the backend.
C6_MissingPrompt ==
    \A t \in Threads :
        (thr[t].req.kind = "generate" /\ ~thr[t].req.has_prompt)
            => /\ ~AtBackend(t)
               /\ thr[t].pc = "done" => thr[t].resp.status = 400

\* C7: a /generate request with max_length over the limit is answered 400
\* and never reaches the backend, in both variants.
C7_MaxLength ==
    \A t \in Threads :
        (thr[t].req.kind = "generate" /\ thr[t].req.max_length > MaxLengthLimit)
            => /\ ~AtBackend(t)
               /\ thr[t].pc = "done" => thr[t].resp.status = 400

\* C8: every /health response reports model_loaded = true exactly when a load
\* has constructed the model, and then model and tokenizer are both present:
\* a reader never sees true while the handle is only partly set.
C8_HealthConsistent ==
    [][Health =>
          /\ health'.model_loaded <=> (handlesBuilt >= 1)
          /\ health'.model_loaded => (model # None /\ tokenizer # None)]_vars

\* /health has answered false while a load had set the tokenizer and not yet
\* the model.
C8_Witness ==
    /\ health.seen
    /\ ~health.model_loaded
    /\ tokenizer # None
    /\ model = None
    /\ InFlight >= 1

\* C9: a 500 response does not show the text of the exception.
C9_NoLeak ==
    \A t \in Threads :
        thr[t].resp.status = 500 => ~ShowsException(thr[t].resp)

\* C10: the masked value of /debug/env does not give the token away: some
\* other token of the same length has the same masked value.
C10_MaskHidesToken ==
    (debug.seen /\ debug.configured)
        => \E other \in [1..Len(hf_token) -> TokenChars] :
              other # hf_token /\ Mask(other) = debug.masked

\* C11: the text /chat returns never has the constructed prompt as a prefix,
\* and removing the prompt a second time changes nothing.
C11_PromptRemoved ==
    chat.pc = "done"
        => /\ ~StartsWith(chat.text, chat.prompt)
           /\ StripPrompt(variant, chat.text, chat.prompt) = chat.text

\* C12: a VM /chat or /generate request whose check runs while the model or
\* the tokenizer is absent is answered 503 "Model not loaded", with no
\* exception text and without going to the backend; a request is answered
\* 400 for its empty prompt only when both are present.
C12_NotLoadedSignal ==
    [][\A t \in Threads :
          (thr[t].pc = "v_check" /\ thr'[t].pc # "v_check")
              => IF model = None \/ tokenizer = None
                 THEN /\ thr'[t].pc = "done"
                      /\ thr'[t].resp = [status |-> 503, error |-> "Model not loaded",
                                         details |-> ""]
                 ELSE /\ thr'[t].resp.status # 503
                      /\ ~thr'[t].req.has_prompt
                            => thr'[t].pc = "done" /\ thr'[t].resp.status = 400]_vars

\* One request was answered 503 before the load had finished, another was
\* answered 400 once the model and the tokenizer were there.
C12_Witness ==
    /\ variant = "vm"
    /\ bg.pc = "vm_serving"
    /\ \E t, u \in Threads :
          /\ thr[t].pc = "done" /\ thr[t].resp.status = 503
          /\ thr[u].pc = "done" /\ thr[u].resp.status = 400

\* C13: the prompt holds the first min(len, 2000) characters of the
\* manuscriptContext after the preamble and the context header, and the
\* preamble alone when the context is empty.
C13_ContextExcerpt ==
    chat.pc = "built"
        => LET n == Len(chat.ctx)
               from == Len(Preamble) + Len(CtxHeader)
               rest == 1 + Len(JoinMessages(chat.msgs))
           IN  IF n = 0
               THEN /\ Len(chat.prompt) = Len(Preamble) + rest
                    /\ SubSeq(chat.prompt, 1, Len(Preamble)) = Preamble
               ELSE /\ Len(chat.prompt) - from - rest = (IF n > 2000 THEN 2000 ELSE n)
                    /\ \A i \in 1..(Len(chat.prompt) - from - rest) :
                          chat.prompt[from + i] = chat.ctx[i]

\* A context longer than the cap has been cut to the cap in the prompt.
C13_Witness ==
    /\ chat.pc = "built"
    /\ Len(chat.ctx) > ContextCap
    /\ Len(chat.prompt) =
          Len(Preamble) + Len(CtxHeader) + ContextCap + 1 + Len(JoinMessages(chat.msgs))

\* C14: whenever load_model() has been called and no call is still running,
\* the global model_loading is false, whether the calls succeeded or failed
\* and whether a request or load_model_background() made them.
C14_FlagClearedAfterLoad ==
    (variant = "cloudrun" /\ loadCalls >= 1 /\ InFlight = 0) => ~model_loading

\* C15: at every moment a load_model() call is executing, started by a
\* request in get_model() or by the background thread, model_loading is true.
C15_FlagSetDuringLoad ==
    (variant = "cloudrun" /\ InFlight >= 1) => model_loading

\* C16: once the model is present it is never removed or replaced by another
\* handle, get_model() called with the model present goes straight to its
\* return, and every caller is given the handle the first one was given.
C16_HandleStable ==
    [][/\ model # None => model' = model
       /\ \A t \in Threads :
             (GetModelCheckModel(t) /\ model # None) => thr'[t].pc = "g_ret"
       /\ \A t, u \in Threads :
             (thr'[t].cm # None /\ thr'[u].cm # None) => thr'[t].cm = thr'[u].cm]_vars

\* C17: /health, /debug/env and / can answer in every state, and a step in
\* which one of them answers leaves the model, the tokenizer, the flag, the
\* load calls and every request and loader thread as they were.
C17_DiagnosticsPassive ==
    /\ [](ENABLED Health /\ ENABLED DebugEnv /\ ENABLED Root)
    /\ [][(health' # health \/ debug' # debug \/ rootSeen' # rootSeen)
             => UNCHANGED <<model, tokenizer, model_loading, bg, thr, loadCalls,
                            handlesBuilt>>]_vars

\* The three handlers have answered, /health with model_loaded false, while
\* the eager load has failed and a request waits in get_model().
C17_Witness ==
    /\ health.seen /\ ~health.model_loaded
    /\ debug.seen
    /\ rootSeen
    /\ bg.failed
    /\ \E t \in Threads : thr[t].pc = "g_wait"

====
